---- MODULE Spec2Model ----
(***************************************************************************)
(* Model of the RoadRunner backend controllers.                            *)
(*                                                                         *)
(*   chat    : controllers/chatting.controller.js (joinRoom, sendMessage,  *)
(*             loadMessage), with the storage calls of ChattingService /   *)
(*             UserService                                                 *)
(*   orders  : controllers/shopper.controller.js and the runner controller *)
(*             (createOrder, deleteOrder, createOrderRequest,              *)
(*             updateOrderRequest, deleteOrderRequest), with               *)
(*             ShopperService / RunnerService                              *)
(*                                                                         *)
(* The service modules are not part of the sources at hand; their          *)
(* operators below follow the written specification of the storage layer.  *)
(***************************************************************************)
EXTENDS Integers, Sequences, FiniteSets, TLC

(* ------------------------------ bounds -------------------------------- *)

\* User identifiers that tokens and request bodies carry: a one-digit and a
\* two-digit identifier.
UserIds == {2, 10}

\* Longest userIds array of a joinRoom request body.
MaxLen == 2

\* Most rooms the store holds.
MaxRooms == 2

\* Requests in flight at a time.
Procs == {"p", "q"}

\* Most orders, and most order requests, ever created.
MaxOrders == 1
MaxRequests == 1

\* A user who takes part in no room of users 2 and 10.
Outsiders == {3}
MsgUsers == UserIds \cup Outsiders

\* Most messages sendMessage stores, and most messages of a ledger that
\* loadMessage pages through.
MaxSent == 2
MaxMessages == 3

\* The latest reading of the clock that stamps createdAt.
MaxClock == 1

\* Most orders of a store that getOrders and getRequests list.
MaxListed == 2

\* The limits and offsets a loadMessage query names.
PageSizes == {1, 2}

(* --------------------------- helper operators -------------------------- *)

Range(s) == {s[i] : i \in 1..Len(s)}

\* Non-empty arrays of identifiers, the bodies that pass the validator of
\* joinRoom (Array.isArray(userIds) && userIds.length > 0).
Bodies == UNION {[1..n -> UserIds] : n \in 1..MaxLen}

\* An object with no field, and an object with the one field k.
EmptyObject == <<>>
Field(k, v) == k :> v

\* Object.assign(target, source): the fields of source override those of
\* target.
ObjectAssign(target, source) == source @@ target

\* The identifiers of ids in ascending order.
RECURSIVE Ascending(_)
Ascending(ids) ==
    IF ids = {} THEN <<>>
    ELSE LET first == CHOOSE a \in ids : \A b \in ids : a <= b
         IN  <<first>> \o Ascending(ids \ {first})

VARIABLES
    users,      \* identifiers of the existing, active users
    rooms,      \* chatting rooms in creation order; roomId is the position
    pc,         \* per request in flight: the await point it is suspended at
    req,        \* per request: req.decoded.userId
    loc,        \* per request: the handler's local variables
    res,        \* per request: what the handler answered
    workflow,   \* the order controller in use: "shopper" or "runner"
    orders,     \* orderId -> the stored order of that workflow
    orderSeq,   \* orders created so far (the last orderId given out)
    requests,   \* requestId -> the stored order request
    requestSeq, \* order requests created so far
    companions, \* shopper orders stored along with requests on runner orders
    last,       \* the latest order handler call and its answer
    listing,    \* the latest getOrders / getRequests call and its answer
    messages,   \* the message ledger in insertion order; the id is the position
    clock,      \* the time createdAt is taken from
    io,         \* whether the socket server is attached to the request
    emitted,    \* the events emitted to socket channels, in order
    page,       \* the latest loadMessage call and its answer
    view,       \* the latest room / loadRoom call and its answer
    profiles,   \* the stored user rows: display name and password hash
    reply       \* the latest call of a user handler and its answer

chatVars == <<users, rooms, pc, req, loc, res>>
msgVars == <<messages, clock, io, emitted, page, view>>
orderVars == <<workflow, orders, orderSeq, requests, requestSeq, companions,
               last, listing>>
userVars == <<profiles, reply>>
vars == <<chatVars, orderVars, msgVars, userVars>>

(* ------------- chatting.controller.js: joinRoom, lines 117-122 --------- *)

\* String(n) of a non-negative integer, as its decimal digits.
RECURSIVE DecimalDigits(_)
DecimalDigits(n) ==
    IF n < 10 THEN <<n>> ELSE Append(DecimalDigits(n \div 10), n % 10)

\* a < b for two strings compared code unit by code unit, a proper prefix
\* first: the order Array.prototype.sort uses when no comparator is given.
RECURSIVE StringLess(_, _)
StringLess(a, b) ==
    IF b = <<>> THEN FALSE
    ELSE IF a = <<>> THEN TRUE
    ELSE IF Head(a) # Head(b) THEN Head(a) < Head(b)
    ELSE StringLess(Tail(a), Tail(b))

\* The default sort comparison of two numbers: their strings are compared.
SortBefore(x, y) == StringLess(DecimalDigits(x), DecimalDigits(y))

\* x put into the sorted array s, after the elements that do not sort after
\* it (the sort is stable).
RECURSIVE SortedInsert(_, _)
SortedInsert(x, s) ==
    IF s = <<>> THEN <<x>>
    ELSE IF SortBefore(x, Head(s)) THEN <<x>> \o s
    ELSE <<Head(s)>> \o SortedInsert(x, Tail(s))

\* userIds.sort() with no comparator.
RECURSIVE DefaultSort(_)
DefaultSort(s) ==
    IF s = <<>> THEN <<>>
    ELSE SortedInsert(s[Len(s)], DefaultSort(SubSeq(s, 1, Len(s) - 1)))

\* userIds.indexOf(userId) === -1
NotListed(userIds, userId) == userId \notin Range(userIds)

\* Lines 118-119: the body's identifiers sorted, then the requester pushed
\* at the end when the body did not list it.
MemberList(userId, body) ==
    LET sorted == DefaultSort(body)
    IN  IF NotListed(sorted, userId) THEN Append(sorted, userId) ELSE sorted

\* Line 120: if (userIds.length < 2) throw new Error('CHATTING.INVALID_MEMBER')
MinMembers == 2
TooFewMembers_one(userIds) == Len(userIds) < 1
TooFewMembers(userIds) == Len(userIds) < MinMembers

\* Line 122: userIds.join('-')
RECURSIVE JoinDash(_)
JoinDash(s) ==
    IF s = <<>> THEN ""
    ELSE IF Len(s) = 1 THEN ToString(s[1])
    ELSE ToString(s[1]) \o "-" \o JoinDash(Tail(s))

(* --------- storage calls of joinRoom (ChattingService, UserService) ---- *)

\* ChattingService.getRoomByRoomKey(roomKey, userId): the roomId of the
\* room with that key, 0 (null) when none. The room is found by its key
\* alone: whether userId takes part in it is not verified.
GetRoomByRoomKey(roomKey, userId) ==
    LET hits == {i \in 1..Len(rooms) : rooms[i].roomKey = roomKey}
    IN  IF hits = {} THEN 0 ELSE CHOOSE i \in hits : \A j \in hits : i <= j

\* UserService.getUserCountByIds(userIds).isSame: the number of active
\* users whose identifier is in the list equals the length of the list.
IsSame(userIds) ==
    Cardinality({u \in users : u \in Range(userIds)}) = Len(userIds)

\* ChattingService.createRoom(userIds): the key of the new room is the
\* dash-joined list; the store refuses a second room with a key it holds.
KeyTaken_never(roomKey) == FALSE
KeyTaken(roomKey) == \E i \in 1..Len(rooms) : rooms[i].roomKey = roomKey

NewRoom(userIds) == [roomKey |-> JoinDash(userIds), userIds |-> userIds]

(* ------------------------- chat: initial state ------------------------- *)

NoReq == [userId |-> 0]
NoLoc == [userIds |-> <<>>, roomKey |-> "", chattingRoom |-> 0,
          activeAtCheck |-> {}, createdAt |-> 0, chattingMessage |-> 0]
NoRes == [kind |-> "none", error |-> "", chattingRoom |-> 0,
          chattingMessage |-> 0]

\* next(error), and res.json({ success: true, data: { chattingRoom, .. } })
ErrorRes(e) == [NoRes EXCEPT !.kind = "error", !.error = e]
JsonRes(room) == [NoRes EXCEPT !.kind = "json", !.chattingRoom = room]

\* A store in which the users of UserIds have joined and no room exists.
ChatInit ==
    /\ users = UserIds
    /\ rooms = <<>>
    /\ pc = [p \in Procs |-> "idle"]
    /\ req = [p \in Procs |-> NoReq]
    /\ loc = [p \in Procs |-> NoLoc]
    /\ res = [p \in Procs |-> NoRes]

(* ---------------- chatting.controller.js: joinRoom --------------------- *)

\* Lines 117-124: the synchronous prefix of the handler, up to the first
\* await. A list that is too short is answered with next(error).
JoinRoomStart(p) ==
    /\ pc[p] = "idle"
    /\ \E userId \in UserIds, body \in Bodies :
          LET userIds == MemberList(userId, body)
          IN  /\ req' = [req EXCEPT ![p] = [userId |-> userId]]
              /\ IF TooFewMembers(userIds)
                 THEN /\ pc' = [pc EXCEPT ![p] = "done"]
                      /\ loc' = [loc EXCEPT ![p] = [NoLoc EXCEPT !.userIds = userIds]]
                      /\ res' = [res EXCEPT ![p] = ErrorRes("CHATTING.INVALID_MEMBER")]
                 ELSE /\ pc' = [pc EXCEPT ![p] = "lookup"]
                      /\ loc' = [loc EXCEPT ![p] =
                                    [NoLoc EXCEPT !.userIds = userIds,
                                                  !.roomKey = JoinDash(userIds)]]
                      /\ res' = res
    /\ UNCHANGED <<users, rooms, orderVars, msgVars, userVars>>

\* Line 126: if (!chattingRoom)
RoomMissing_always(room) == TRUE
RoomMissing(room) == room = 0

\* Lines 124-126: the room lookup completes.
JoinRoomLookup(p) ==
    /\ pc[p] = "lookup"
    /\ LET room == GetRoomByRoomKey(loc[p].roomKey, req[p].userId)
       IN  /\ loc' = [loc EXCEPT ![p].chattingRoom = room]
           /\ pc' = [pc EXCEPT ![p] = IF RoomMissing(room) THEN "count"
                                      ELSE "users"]
    /\ UNCHANGED <<users, rooms, req, res, orderVars, msgVars, userVars>>

\* Line 127: if (!isSame) throw new Error('CHATTING.INVALID_MEMBER')
CountRejects_never(userIds) == FALSE
CountRejects(userIds) == ~IsSame(userIds)

\* Lines 126-127: the user count check completes.
JoinRoomCount(p) ==
    /\ pc[p] = "count"
    /\ IF CountRejects(loc[p].userIds)
       THEN /\ pc' = [pc EXCEPT ![p] = "done"]
            /\ res' = [res EXCEPT ![p] = ErrorRes("CHATTING.INVALID_MEMBER")]
            /\ loc' = loc
       ELSE /\ pc' = [pc EXCEPT ![p] = "create"]
            /\ loc' = [loc EXCEPT ![p].activeAtCheck = users]
            /\ res' = res
    /\ UNCHANGED <<users, rooms, req, orderVars, msgVars, userVars>>

\* Line 129: createRoom completes, or the store refuses the key and the
\* error goes to next(error).
JoinRoomCreate(p) ==
    /\ pc[p] = "create"
    /\ LET room == NewRoom(loc[p].userIds)
       IN  IF KeyTaken(room.roomKey)
           THEN /\ pc' = [pc EXCEPT ![p] = "done"]
                /\ res' = [res EXCEPT ![p] = ErrorRes("Conflict")]
                /\ UNCHANGED <<rooms, loc>>
           ELSE /\ Len(rooms) < MaxRooms
                /\ rooms' = Append(rooms, room)
                /\ loc' = [loc EXCEPT ![p].chattingRoom = Len(rooms) + 1]
                /\ pc' = [pc EXCEPT ![p] = "users"]
                /\ res' = res
    /\ UNCHANGED <<users, req, orderVars, msgVars, userVars>>

\* Lines 132-134: the users are loaded (a read) and the room is answered.
JoinRoomRespond(p) ==
    /\ pc[p] = "users"
    /\ res' = [res EXCEPT ![p] = JsonRes(loc[p].chattingRoom)]
    /\ pc' = [pc EXCEPT ![p] = "done"]
    /\ UNCHANGED <<users, rooms, req, loc, orderVars, msgVars, userVars>>

\* The answer has been sent; the next request may arrive.
RequestEnd(p) ==
    /\ pc[p] = "done"
    /\ pc' = [pc EXCEPT ![p] = "idle"]
    /\ req' = [req EXCEPT ![p] = NoReq]
    /\ loc' = [loc EXCEPT ![p] = NoLoc]
    /\ res' = [res EXCEPT ![p] = NoRes]
    /\ UNCHANGED <<users, rooms, orderVars, msgVars, userVars>>

(* ----------------------- users: the stored rows ----------------------- *)

\* The display names and the passwords a body may carry.
Names == {"ann", "bob"}
Passwords == {"old", "new"}

\* bcrypt.hash(password, 12) and bcrypt.compare(password, hash)
Hash(password) == <<"bcrypt", password>>
Compare(password, hash) == hash = Hash(password)

NoReply == [op |-> "none", caller |-> 0, outcome |-> "none", name |-> "",
            password |-> ""]

\* Every user has a row, with the first name and the first password.
UserInit ==
    /\ profiles = [u \in UserIds |-> [name |-> "ann", password |-> Hash("old")]]
    /\ reply = NoReply

(* ---------------- user.controller.js: deleteUser ----------------------- *)

\* Lines 223-236 for a caller whose record exists: the user is deactivated
\* (for any other caller the handler throws USER.USER_NOT_FOUND and leaves
\* the store as it is).
DeleteUser(u) ==
    /\ u \in users
    /\ users' = users \ {u}
    /\ UNCHANGED <<rooms, pc, req, loc, res, orderVars, msgVars, userVars>>

(* ------- user.controller.js: updateUser, updateUserPassword, deleteUser - *)

\* UserService.getUserById(userId) and getUserByIdWithPassword(userId): the
\* row of an active user, 0 (null) when there is none.
GetUserById(userId) == IF userId \in users THEN userId ELSE 0

\* UserService.updateUser(user): the fields of user are written to the row
\* of user.userId; nothing is written when there is no such row.
UpdateUserStore(user) ==
    IF GetUserById(user["userId"]) # 0
    THEN [profiles EXCEPT ![user["userId"]].name = user["name"]]
    ELSE profiles

\* UserService.updateUserPassword(userId, hashPassword)
UpdatePasswordStore(userId, hash) ==
    [profiles EXCEPT ![userId].password = hash]

\* Bodies of updateUser: a display name, without and with a userId.
UpdateUserBodies ==
    LET names == {Field("name", n) : n \in Names}
        ids == {EmptyObject} \cup {Field("userId", u) : u \in UserIds}
    IN  {ObjectAssign(a, b) : a \in names, b \in ids}

\* Lines 114-115: const user = req.body; user.userId = userId;
SetUserId_body(body, userId) == ObjectAssign(Field("userId", userId), body)
SetUserId(body, userId) == ObjectAssign(body, Field("userId", userId))

\* Lines 113-121: the row is updated, read again and answered.
UpdateUser ==
    /\ \E userId \in UserIds, body \in UpdateUserBodies :
          /\ profiles' = UpdateUserStore(SetUserId(body, userId))
          /\ reply' = [NoReply EXCEPT !.op = "updateUser", !.caller = userId,
                                      !.outcome = "ok", !.name = body["name"]]
    /\ UNCHANGED <<chatVars, orderVars, msgVars>>

\* Lines 182-184: what the handler throws before it writes: a TypeError
\* when no row was read (user.password of null), AUTH.PASSWORD_INCORRECT
\* when the password does not compare equal to the stored hash.
PasswordThrows(userId, password) ==
    IF GetUserById(userId) = 0 THEN "TypeError"
    ELSE IF ~Compare(password, profiles[userId].password)
         THEN "AUTH.PASSWORD_INCORRECT"
         ELSE "ok"

\* Lines 177-190: the new password is hashed and stored when the current
\* one matches; any error goes to next(error).
UpdateUserPassword ==
    /\ \E userId \in UserIds, password \in Passwords, newPassword \in Passwords :
          LET thrown == PasswordThrows(userId, password)
          IN  /\ profiles' = IF thrown = "ok"
                             THEN UpdatePasswordStore(userId, Hash(newPassword))
                             ELSE profiles
              /\ reply' = [NoReply EXCEPT !.op = "updateUserPassword",
                                          !.caller = userId,
                                          !.outcome = thrown,
                                          !.password = password]
    /\ UNCHANGED <<chatVars, orderVars, msgVars>>

\* Lines 224-232: the whole handler, for a caller with or without a row.
DeleteUserCall ==
    /\ \E userId \in UserIds :
          IF GetUserById(userId) = 0
          THEN /\ users' = users
               /\ reply' = [NoReply EXCEPT !.op = "deleteUser", !.caller = userId,
                                           !.outcome = "USER.USER_NOT_FOUND"]
          ELSE /\ users' = users \ {userId}
               /\ reply' = [NoReply EXCEPT !.op = "deleteUser", !.caller = userId,
                                           !.outcome = "ok"]
    /\ UNCHANGED <<rooms, pc, req, loc, res, orderVars, msgVars, profiles>>

(* ------------- storage calls of the messages (ChattingService) -------- *)

\* ChattingService.createMessage(userId, message, roomId, type): the row
\* that is inserted; createdAt is the time of the call.
NewMessage(userId, roomId, createdAt) ==
    [roomId |-> roomId, userId |-> userId, createdAt |-> createdAt]

\* chattingMessage.toJSON(): the stored row with its identifier.
ToJSON(id) ==
    [id |-> id, roomId |-> messages[id].roomId, userId |-> messages[id].userId,
     createdAt |-> messages[id].createdAt]

\* Message a comes before message b in a page: the later createdAt first,
\* and of two messages with one createdAt the one inserted later.
NewerFirst_older(a, b) ==
    \/ messages[a].createdAt < messages[b].createdAt
    \/ messages[a].createdAt = messages[b].createdAt /\ a < b
NewerFirst(a, b) ==
    \/ messages[a].createdAt > messages[b].createdAt
    \/ messages[a].createdAt = messages[b].createdAt /\ a > b

\* The identifiers of ids in page order.
RECURSIVE PageOrder(_)
PageOrder(ids) ==
    IF ids = {} THEN <<>>
    ELSE LET first == CHOOSE a \in ids : \A b \in ids \ {a} : NewerFirst(a, b)
         IN  <<first>> \o PageOrder(ids \ {first})

\* ChattingService.loadMessage(roomId, limit, offset): the messages of the
\* room in page order, without the first offset ones, limit at most.
LoadMessageRows(roomId, limit, offset) ==
    LET all == PageOrder({i \in 1..Len(messages) : messages[i].roomId = roomId})
        upto == IF offset + limit < Len(all) THEN offset + limit ELSE Len(all)
    IN  IF offset >= Len(all) THEN <<>> ELSE SubSeq(all, offset + 1, upto)

(* ---------------------- messages: initial states ----------------------- *)

\* No room or loadRoom call has been answered yet.
NoView == [op |-> "none", roomKey |-> "", outcome |-> "none",
           chattingRoom |-> 0, users |-> {}, chattingRooms |-> <<>>]

NoPage == [roomKey |-> "", chattingRoom |-> 0, limit |-> 0, offset |-> 0,
           outcome |-> "none", rows |-> <<>>]

\* No message has been sent; the socket server is attached.
MsgInit ==
    /\ messages = <<>>
    /\ clock = 0
    /\ io = "attached"
    /\ emitted = <<>>
    /\ page = NoPage
    /\ view = NoView

\* The rooms of users 2 and 10 and of users 10 and 3, as joinRoom creates
\* them.
MsgRooms == <<NewRoom(MemberList(2, <<10>>)), NewRoom(MemberList(10, <<3>>))>>

(* ---------------- chatting.controller.js: sendMessage ------------------ *)

\* Who sends, and the roomKey of the body: the key of the first room, and
\* a key no room has.
Senders == {2} \cup Outsiders
SendKeys == {MsgRooms[1].roomKey, "2-3"}

MessageRes(id) == [NoRes EXCEPT !.kind = "json", !.chattingMessage = id]

\* Lines 318-322: the synchronous prefix of the handler, up to the first
\* await.
SendMessageStart(p) ==
    /\ pc[p] = "idle"
    /\ \E userId \in Senders, roomKey \in SendKeys :
          /\ req' = [req EXCEPT ![p] = [userId |-> userId]]
          /\ loc' = [loc EXCEPT ![p] = [NoLoc EXCEPT !.roomKey = roomKey]]
          /\ pc' = [pc EXCEPT ![p] = "msgLookup"]
    /\ UNCHANGED <<users, rooms, res, orderVars, msgVars, userVars>>

\* Lines 322-330: the room lookup completes; without a room the handler
\* throws CHATTING.INVALID_ROOMKEY, else it calls createMessage.
SendMessageLookup(p) ==
    /\ pc[p] = "msgLookup"
    /\ LET room == GetRoomByRoomKey(loc[p].roomKey, req[p].userId)
       IN  IF room = 0
           THEN /\ pc' = [pc EXCEPT ![p] = "done"]
                /\ res' = [res EXCEPT ![p] = ErrorRes("CHATTING.INVALID_ROOMKEY")]
                /\ loc' = loc
           ELSE /\ pc' = [pc EXCEPT ![p] = "msgCreate"]
                /\ loc' = [loc EXCEPT ![p].chattingRoom = room,
                                      ![p].createdAt = clock]
                /\ res' = res
    /\ UNCHANGED <<users, rooms, req, orderVars, msgVars, userVars>>

\* Lines 325-330: the row is inserted.
SendMessageCreate(p) ==
    /\ pc[p] = "msgCreate"
    /\ Len(messages) < MaxSent
    /\ messages' = Append(messages, NewMessage(req[p].userId, loc[p].chattingRoom,
                                               loc[p].createdAt))
    /\ loc' = [loc EXCEPT ![p].chattingMessage = Len(messages) + 1]
    /\ pc' = [pc EXCEPT ![p] = "msgEmit"]
    /\ UNCHANGED <<users, rooms, req, res, orderVars, userVars, clock, io, emitted, page,
                   view>>

\* Line 332: req.io.sockets.in(roomKey)
EmitChannel_roomId(roomKey, roomId) == ToString(roomId)
EmitChannel(roomKey, roomId) == roomKey

\* Lines 335-337: catch (error) { next(error) } leaves the ledger as it is.
CatchLeaves_undo(ledger, id) == SubSeq(ledger, 1, id - 1)
CatchLeaves(ledger, id) == ledger

\* Lines 332-337: createMessage has resolved; the message is emitted to the
\* channel and answered. Without a socket server on the request the emit
\* throws and the error goes to next(error).
SendMessageEmit(p) ==
    /\ pc[p] = "msgEmit"
    /\ IF io = "attached"
       THEN /\ emitted' = Append(emitted,
                    [channel |-> EmitChannel(loc[p].roomKey, loc[p].chattingRoom),
                     event |-> "message",
                     payload |-> ToJSON(loc[p].chattingMessage)])
            /\ res' = [res EXCEPT ![p] = MessageRes(loc[p].chattingMessage)]
            /\ messages' = messages
       ELSE /\ emitted' = emitted
            /\ res' = [res EXCEPT ![p] = ErrorRes("TypeError")]
            /\ messages' = CatchLeaves(messages, loc[p].chattingMessage)
    /\ pc' = [pc EXCEPT ![p] = "done"]
    /\ UNCHANGED <<users, rooms, req, loc, orderVars, userVars, clock, io, page, view>>

\* Time passes.
Tick ==
    /\ clock < MaxClock
    /\ clock' = clock + 1
    /\ UNCHANGED <<chatVars, orderVars, userVars, messages, io, emitted, page, view>>

(* ---------------- chatting.controller.js: loadMessage ------------------ *)

\* A query names limit and offset or leaves them out.
Queries ==
    LET limits == {EmptyObject} \cup {Field("limit", n) : n \in PageSizes}
        offsets == {EmptyObject} \cup {Field("offset", n) : n \in PageSizes}
    IN  {ObjectAssign(a, b) : a \in limits, b \in offsets}

LoadKeys == {MsgRooms[1].roomKey, MsgRooms[2].roomKey, "2-3"}

\* Line 251: const { roomKey, limit = 30, offset = 0 } = req.query
DefaultLimit == 30
DefaultOffset == 0
QueryLimit(query) == IF "limit" \in DOMAIN query THEN query["limit"] ELSE DefaultLimit
QueryOffset(query) == IF "offset" \in DOMAIN query THEN query["offset"] ELSE DefaultOffset

\* Lines 258-262: loadMessage(chattingRoom.roomId, +limit, +offset)
LoadArgs_swapped(roomId, limit, offset) == <<roomId, offset, limit>>
LoadArgs(roomId, limit, offset) == <<roomId, limit, offset>>

\* What the service answers to the call of lines 258-262.
LoadAnswer(roomId, limit, offset) ==
    LET args == LoadArgs(roomId, limit, offset)
    IN  LoadMessageRows(args[1], args[2], args[3])

\* Lines 250-267, for the room keys and queries given. The handler reads
\* and writes no row.
LoadMessageOn(keys, queries) ==
    /\ \E userId \in Senders, roomKey \in keys, query \in queries :
          LET room == GetRoomByRoomKey(roomKey, userId)
              asked == [NoPage EXCEPT !.roomKey = roomKey,
                                      !.limit = QueryLimit(query),
                                      !.offset = QueryOffset(query)]
          IN  page' = IF room = 0
                      THEN [asked EXCEPT !.outcome = "CHATTING.INVALID_ROOMKEY"]
                      ELSE [asked EXCEPT !.outcome = "ok",
                                         !.chattingRoom = room,
                                         !.rows = LoadAnswer(room,
                                                     QueryLimit(query),
                                                     QueryOffset(query))]
    /\ UNCHANGED <<chatVars, orderVars, userVars, messages, clock, io, emitted, view>>

LoadMessage == LoadMessageOn(LoadKeys, Queries)

(* ---------------- chatting.controller.js: room, loadRoom --------------- *)

\* UserService.getUserByIds(ids): the active users with these identifiers.
GetUserByIds(ids) == {u \in users : u \in Range(ids)}

\* ChattingService.loadRoom(userId, limit, offset): the rooms userId takes
\* part in, in creation order, without the first offset ones, limit at most.
LoadRoomRows(userId, limit, offset) ==
    LET all == Ascending({i \in 1..Len(rooms) : userId \in Range(rooms[i].userIds)})
        upto == IF offset + limit < Len(all) THEN offset + limit ELSE Len(all)
    IN  IF offset >= Len(all) THEN <<>> ELSE SubSeq(all, offset + 1, upto)

\* The room keys of a room query, as the identifier lists they are written
\* from.
KeyLists == {<<10, 2>>, <<2, 10>>, <<2, 3>>}
RoomKeys == {JoinDash(ids) : ids \in KeyLists}

\* roomKey.split('-'): the identifiers written in the key.
SplitDash(roomKey) == CHOOSE ids \in KeyLists : JoinDash(ids) = roomKey

\* Lines 48-60: the room is looked up, the users named in the key are
\* loaded, and both are answered; the handler has no branch for a lookup
\* that found no room.
Room ==
    /\ \E userId \in Senders, roomKey \in RoomKeys :
          view' = [NoView EXCEPT
                      !.op = "room", !.roomKey = roomKey, !.outcome = "json",
                      !.chattingRoom = GetRoomByRoomKey(roomKey, userId),
                      !.users = GetUserByIds(SplitDash(roomKey))]
    /\ UNCHANGED <<chatVars, orderVars, userVars, messages, clock, io, emitted, page>>

\* Lines 186-197, for the queries given.
LoadRoomOn(queries) ==
    /\ \E userId \in Senders, query \in queries :
          view' = [NoView EXCEPT
                      !.op = "loadRoom", !.outcome = "json",
                      !.chattingRooms = LoadRoomRows(userId, QueryLimit(query),
                                                     QueryOffset(query))]
    /\ UNCHANGED <<chatVars, orderVars, userVars, messages, clock, io, emitted, page>>

(* ------------- order controllers: objects and identifiers -------------- *)

\* shopper.controller.js works on shopper orders and the requests runners
\* make on them; the runner controller on runner orders and the requests
\* shoppers make on them.
Workflows == {"shopper", "runner"}

OrderIds == 1..MaxOrders
RequestIds == 1..MaxRequests

\* The field that names the owner of an order, and the field that names the
\* counterpart of a request on it.
OwnerField(w) == IF w = "shopper" THEN "shopperId" ELSE "runnerId"
CounterpartField(w) == IF w = "shopper" THEN "runnerId" ELSE "shopperId"

\* o[k] for an identifier field and for a string field, undefined as 0 and
\* as "undefined".
GetId(o, k) == IF k \in DOMAIN o THEN o[k] ELSE 0
GetString(o, k) == IF k \in DOMAIN o THEN o[k] ELSE "undefined"

\* The request status literals.
RequestStatus ==
    {"REQUESTING", "MATCHED", "MATCH_FAIL", "DELIVERED_REQUEST",
     "DELIVERED", "REVIEW_REQUEST", "REVIEWED"}

\* requestStatus values a body may carry: the literals, and MATCHING, which
\* the documentation of the shopper endpoint lists.
StatusInputs == RequestStatus \cup {"MATCHING"}

(* ---------------- ShopperService / RunnerService ----------------------- *)

\* The statuses a request may move to from status s.
AllowedTo_skip(s) ==
    CASE s = "REQUESTING"        -> {"MATCHED", "MATCH_FAIL"}
      [] s = "MATCHED"           -> {"DELIVERED_REQUEST", "DELIVERED", "MATCH_FAIL"}
      [] s = "DELIVERED_REQUEST" -> {"DELIVERED"}
      [] s = "DELIVERED"         -> {"REVIEW_REQUEST", "REVIEWED"}
      [] s = "REVIEW_REQUEST"    -> {"REVIEWED"}
      [] OTHER                   -> {}
AllowedTo(s) ==
    CASE s = "REQUESTING"        -> {"MATCHED", "MATCH_FAIL"}
      [] s = "MATCHED"           -> {"DELIVERED_REQUEST", "MATCH_FAIL"}
      [] s = "DELIVERED_REQUEST" -> {"DELIVERED"}
      [] s = "DELIVERED"         -> {"REVIEW_REQUEST"}
      [] s = "REVIEW_REQUEST"    -> {"REVIEWED"}
      [] OTHER                   -> {}

\* createOrder(order): the error thrown ("ok" when none) and the store after.
CreateOrderStore(order, w) ==
    orders @@ ((orderSeq + 1) :> [owner |-> GetId(order, OwnerField(w))])

\* createOrderRequest: NotFound when the order does not exist; otherwise a
\* request in status REQUESTING. Duplicates are not refused.
CreateRequestThrows(request) ==
    IF GetId(request, "orderId") \in DOMAIN orders THEN "ok" ELSE "NotFound"

CreateRequestStore(request, w) ==
    IF CreateRequestThrows(request) = "ok"
    THEN requests @@ ((requestSeq + 1) :>
            [orderId |-> GetId(request, "orderId"),
             counterpart |-> GetId(request, CounterpartField(w)),
             requestStatus |-> "REQUESTING"])
    ELSE requests

\* updateOrderRequest(request): NotFound for an unknown requestId,
\* InvalidTransition when the new status is not reachable from the current.
UpdateRequestThrows(request) ==
    LET id == GetId(request, "requestId")
        to == GetString(request, "requestStatus")
    IN  IF id \notin DOMAIN requests THEN "NotFound"
        ELSE IF to \notin AllowedTo(requests[id].requestStatus)
             THEN "InvalidTransition"
             ELSE "ok"

UpdateRequestStore(request) ==
    IF UpdateRequestThrows(request) = "ok"
    THEN [requests EXCEPT ![GetId(request, "requestId")].requestStatus =
                              GetString(request, "requestStatus")]
    ELSE requests

\* deleteOrderRequest(request): whether a row was removed, and the store
\* after.
DeleteRequestRemoves(request) == GetId(request, "requestId") \in DOMAIN requests

DeleteRequestStore(request) ==
    [r \in DOMAIN requests \ {GetId(request, "requestId")} |-> requests[r]]

\* deleteOrder(ownerId, orderId): the order is removed when it exists and
\* ownerId owns it; whether a row was removed, and the store after. The
\* requests are left as they are.
DeleteOrderRemoves(args, w) ==
    /\ GetId(args, "orderId") \in DOMAIN orders
    /\ orders[GetId(args, "orderId")].owner = GetId(args, OwnerField(w))

DeleteOrderStore(args, w) ==
    IF DeleteOrderRemoves(args, w)
    THEN [o \in DOMAIN orders \ {GetId(args, "orderId")} |-> orders[o]]
    ELSE orders

(* ------------------------ orders: initial state ------------------------ *)

Call(op, caller, id, from, to, svc, outcome, data) ==
    [op |-> op, caller |-> caller, id |-> id, from |-> from, to |-> to,
     svc |-> svc, outcome |-> outcome, data |-> data]

NoCall == Call("none", 0, 0, "", "", FALSE, "", "")

\* No listing call yet: what was asked, what the service was called with,
\* how the call ended and the data answered.
NoListing == [op |-> "none", caller |-> 0, asked |-> <<>>, passed |-> <<>>,
              outcome |-> "none", data |-> [items |-> <<>>, totalCount |-> 0]]

\* Either controller, with empty stores.
OrderInit ==
    /\ listing = NoListing
    /\ workflow \in Workflows
    /\ orders = <<>>
    /\ orderSeq = 0
    /\ requests = <<>>
    /\ requestSeq = 0
    /\ companions = 0
    /\ last = NoCall

\* try { await Service.f(..); res.json({ success: true, .. }) }
\* catch (error) { next(error) }: what the caller is answered when the
\* awaited service call threw `thrown` ("ok": it did not throw).
Answer_notAwaited(thrown) == "ok"
Answer(thrown) == thrown

(* ------ shopper.controller.js 327-338, runner controller 291-302 ------- *)

\* Bodies of createOrder: without and with the owner field.
CreateOrderBodies(w) ==
    {EmptyObject} \cup {Field(OwnerField(w), u) : u \in UserIds}

\* Object.assign({ shopperId }, req.body, req.params); the route has no
\* path parameter.
OrderObject(w, userId, body, params) ==
    ObjectAssign(ObjectAssign(Field(OwnerField(w), userId), body), params)

CreateOrder ==
    /\ orderSeq < MaxOrders
    /\ \E userId \in UserIds, body \in CreateOrderBodies(workflow) :
          LET order == OrderObject(workflow, userId, body, EmptyObject)
          IN  /\ orders' = CreateOrderStore(order, workflow)
              /\ orderSeq' = orderSeq + 1
              /\ last' = Call("createOrder", userId, orderSeq + 1, "", "",
                              TRUE, Answer("ok"), "")
    /\ UNCHANGED <<chatVars, msgVars, userVars, listing, workflow, requests, requestSeq, companions>>

(* ------ shopper.controller.js 373-384, runner controller 337-348 ------- *)

\* Bodies of deleteOrder: empty, or naming an owner.
DeleteOrderBodies(w) ==
    {EmptyObject} \cup {Field(OwnerField(w), u) : u \in UserIds}

\* const shopperId = req.decoded.userId; const { orderId } = req.params;
\* the service is called with (shopperId, orderId). The body is not read.
DeleteOrderArgs_assign(w, userId, body, params) ==
    ObjectAssign(ObjectAssign(Field(OwnerField(w), userId), body), params)
DeleteOrderArgs(w, userId, body, params) ==
    ObjectAssign(Field(OwnerField(w), userId),
                 Field("orderId", GetId(params, "orderId")))

\* data: { isDeleted }
IsDeletedData_always(isDeleted) == "isDeleted: true"
IsDeletedData(isDeleted) ==
    IF isDeleted THEN "isDeleted: true" ELSE "isDeleted: false"

DeleteOrder ==
    /\ \E userId \in UserIds, orderId \in OrderIds,
          body \in DeleteOrderBodies(workflow) :
          LET args == DeleteOrderArgs(workflow, userId, body,
                                      Field("orderId", orderId))
          IN  /\ orders' = DeleteOrderStore(args, workflow)
              /\ last' = Call("deleteOrder", userId, orderId, "", "", TRUE,
                              Answer("ok"),
                              IsDeletedData(DeleteOrderRemoves(args, workflow)))
    /\ UNCHANGED <<chatVars, msgVars, userVars, listing, workflow, orderSeq, requests, requestSeq, companions>>

(* ------ shopper.controller.js 422-433, runner controller 460-471 ------- *)

\* Bodies of createOrderRequest: the shopper order a shopper sends along,
\* without and with a shopperId or an orderId of its own.
CreateRequestBodies ==
    {EmptyObject} \cup {Field("shopperId", u) : u \in UserIds}
                  \cup {Field("orderId", o) : o \in OrderIds}

\* What the service is called with: (orderId, runnerId) in the shopper
\* controller, Object.assign({ shopperId }, req.body, req.params) in the
\* runner controller.
RequestObject(w, userId, body, params) ==
    IF w = "shopper"
    THEN ObjectAssign(Field("runnerId", userId),
                      Field("orderId", GetId(params, "orderId")))
    ELSE ObjectAssign(ObjectAssign(Field("shopperId", userId), body), params)

\* Whether order id is stored.
OrderState(id) == IF id \in DOMAIN orders THEN "stored" ELSE "none"

\* The handler, for a store that has handed out fewer than cap request
\* identifiers, for the order identifiers ids in the path and, with each,
\* the bodies bodiesFor[orderId].
CreateOrderRequestWith(cap, ids, bodiesFor) ==
    /\ requestSeq < cap
    /\ \E userId \in UserIds, orderId \in ids :
       \E body \in bodiesFor[orderId] :
          LET request == RequestObject(workflow, userId, body,
                                       Field("orderId", orderId))
              thrown == CreateRequestThrows(request)
          IN  /\ requests' = CreateRequestStore(request, workflow)
              /\ requestSeq' = IF thrown = "ok" THEN requestSeq + 1 ELSE requestSeq
              /\ companions' = IF thrown = "ok" /\ workflow = "runner"
                               THEN companions + 1 ELSE companions
              /\ last' = Call("createOrderRequest", userId,
                              IF thrown = "ok" THEN requestSeq + 1 ELSE 0,
                              OrderState(orderId), "", TRUE, Answer(thrown), "")
    /\ UNCHANGED <<chatVars, msgVars, userVars, listing, workflow, orders, orderSeq>>

CreateOrderRequestBelow(cap) ==
    CreateOrderRequestWith(cap, OrderIds, [o \in OrderIds |-> CreateRequestBodies])

CreateOrderRequest == CreateOrderRequestBelow(MaxRequests)

(* ------ shopper.controller.js 590-600, runner controller 646-656 ------- *)

\* Bodies of updateOrderRequest: with or without requestStatus, and with or
\* without a requestId of its own.
UpdateBodies ==
    LET status == {EmptyObject} \cup {Field("requestStatus", s) : s \in StatusInputs}
        ids == {EmptyObject} \cup {Field("requestId", r) : r \in RequestIds}
    IN  {ObjectAssign(a, b) : a \in status, b \in ids}

\* Object.assign(req.body, req.params)
BodyWithParams_body(body, params) == ObjectAssign(params, body)
BodyWithParams(body, params) == ObjectAssign(body, params)

\* The status of request id, "none" when there is no such request.
StatusOf(id) ==
    IF id \in DOMAIN requests THEN requests[id].requestStatus ELSE "none"

\* The handler, for the request identifiers rs in the path and, with each,
\* the bodies bodiesFor[requestId].
UpdateOrderRequestWith(rs, bodiesFor) ==
    /\ \E requestId \in rs : \E body \in bodiesFor[requestId] :
          LET request == BodyWithParams(body, Field("requestId", requestId))
              thrown == UpdateRequestThrows(request)
          IN  /\ requests' = UpdateRequestStore(request)
              /\ last' = Call("updateOrderRequest", 0, requestId,
                              StatusOf(requestId),
                              GetString(body, "requestStatus"),
                              TRUE, Answer(thrown), "")
    /\ UNCHANGED <<chatVars, msgVars, userVars, listing, workflow, orders, orderSeq, requestSeq, companions>>

UpdateOrderRequest ==
    UpdateOrderRequestWith(RequestIds, [r \in RequestIds |-> UpdateBodies])

(* ------ shopper.controller.js 635-645, runner controller 692-702 ------- *)

DeleteBodies == {EmptyObject} \cup {Field("requestId", r) : r \in RequestIds}

\* The handler, for the request identifiers rs in the path and, with each,
\* the bodies bodiesFor[requestId].
DeleteOrderRequestWith(rs, bodiesFor) ==
    /\ \E requestId \in rs : \E body \in bodiesFor[requestId] :
          LET request == BodyWithParams(body, Field("requestId", requestId))
          IN  /\ requests' = DeleteRequestStore(request)
              /\ last' = Call("deleteOrderRequest", 0, requestId,
                              StatusOf(requestId), "", TRUE, Answer("ok"),
                              IsDeletedData(DeleteRequestRemoves(request)))
    /\ UNCHANGED <<chatVars, msgVars, userVars, listing, workflow, orders, orderSeq, requestSeq, companions>>

DeleteOrderRequest ==
    DeleteOrderRequestWith(RequestIds, [r \in RequestIds |-> DeleteBodies])

(* ------------- storage calls of the listings (the services) ----------- *)

\* A value of the query string, and a number put there by the handler.
Str(s) == [str |-> s]
Num(n) == [num |-> n]

\* The owner filter v selects the rows of owner id: a number as it is, a
\* string when it is the decimal form of id.
MatchesId(v, id) ==
    IF "num" \in DOMAIN v THEN v.num = id ELSE v.str = ToString(id)

\* offset and limit of a listing, 0 and 20 when the query leaves them out.
DefaultListOffset == 0
DefaultListLimit == 20
ListOffset(query) ==
    IF "offset" \in DOMAIN query THEN query["offset"] ELSE DefaultListOffset
ListLimit(query) ==
    IF "limit" \in DOMAIN query THEN query["limit"] ELSE DefaultListLimit

\* The window [offset, offset + limit) of the rows, and the number of rows.
ListWindow(rows, query) ==
    LET from == ListOffset(query)
        upto == IF from + ListLimit(query) < Len(rows)
                THEN from + ListLimit(query) ELSE Len(rows)
    IN  [items |-> IF from >= Len(rows) THEN <<>> ELSE SubSeq(rows, from + 1, upto),
         totalCount |-> Len(rows)]

\* Service.getOrders(query): the orders of the owner the query names, all
\* orders when it names none.
GetOrdersRows(query, w) ==
    Ascending({o \in DOMAIN orders :
                  OwnerField(w) \in DOMAIN query
                  => MatchesId(query[OwnerField(w)], orders[o].owner)})

\* Service.getRequests(query): the requests on orders of the owner the
\* query names, all requests when it names none.
GetRequestsRows(query, w) ==
    Ascending({r \in DOMAIN requests :
                  OwnerField(w) \in DOMAIN query
                  => /\ requests[r].orderId \in DOMAIN orders
                     /\ MatchesId(query[OwnerField(w)],
                                  orders[requests[r].orderId].owner)})

(* ------ shopper.controller.js 65-83, 146-164; runner 54-71, 136-154 ---- *)

\* Who asks: a user with a token, or nobody (0): listings need no login.
Anonymous == 0
ListCallers == {2, Anonymous}

\* The queries: with or without an owner filter ('me' or the decimal form
\* of an identifier), an offset and a limit.
ListQueries(w) ==
    LET owners == {EmptyObject} \cup {Field(OwnerField(w), Str("me"))}
                  \cup {Field(OwnerField(w), Str(ToString(u))) : u \in UserIds}
        offsets == {EmptyObject, Field("offset", 1)}
        limits == {EmptyObject} \cup {Field("limit", n) : n \in PageSizes}
    IN  {ObjectAssign(ObjectAssign(a, b), c) :
            a \in owners, b \in offsets, c \in limits}

\* req.query.shopperId === 'me'
AsksForMe(query, w) ==
    OwnerField(w) \in DOMAIN query /\ query[OwnerField(w)] = Str("me")

\* if (req.query.shopperId === 'me') req.query.shopperId = req.decoded.userId
ResolveMe_kept(query, w, userId) == query
ResolveMe(query, w, userId) ==
    IF AsksForMe(query, w)
    THEN ObjectAssign(query, Field(OwnerField(w), Num(userId)))
    ELSE query

\* res.status(200).json({ success: true, data: orders })
OrdersData_page(result) ==
    [items |-> result.items, totalCount |-> Len(result.items)]
OrdersData(result) == result

\* What either listing handler does with the rows its service finds. A
\* request without a token has no req.decoded: reading req.decoded.userId
\* throws outside the try block and the request gets no answer.
Listed(op, caller, query, rows) ==
    IF AsksForMe(query, workflow) /\ caller = Anonymous
    THEN [NoListing EXCEPT !.op = op, !.caller = caller, !.asked = query]
    ELSE [op |-> op, caller |-> caller, asked |-> query,
          passed |-> ResolveMe(query, workflow, caller),
          outcome |-> "json",
          data |-> OrdersData(ListWindow(rows, ResolveMe(query, workflow, caller)))]

GetOrders ==
    /\ \E caller \in ListCallers, query \in ListQueries(workflow) :
          listing' = Listed("getOrders", caller, query,
                            GetOrdersRows(ResolveMe(query, workflow, caller),
                                          workflow))
    /\ UNCHANGED <<chatVars, msgVars, userVars, workflow, orders, orderSeq, requests,
                   requestSeq, companions, last>>

GetRequests ==
    /\ \E caller \in ListCallers, query \in ListQueries(workflow) :
          listing' = Listed("getRequests", caller, query,
                            GetRequestsRows(ResolveMe(query, workflow, caller),
                                            workflow))
    /\ UNCHANGED <<chatVars, msgVars, userVars, workflow, orders, orderSeq, requests,
                   requestSeq, companions, last>>

OrderNext ==
    \/ CreateOrder
    \/ CreateOrderRequest
    \/ UpdateOrderRequest
    \/ DeleteOrderRequest

\* The handlers that create and delete orders and requests; every request
\* stays REQUESTING, and one more request than in OrderNext may be created.
OrderLifeNext ==
    \/ CreateOrder
    \/ DeleteOrder
    \/ CreateOrderRequestBelow(MaxRequests + 1)
    \/ DeleteOrderRequest

\* The identifiers a path or a body may name: those the stores hand out and
\* one more.
PathOrders == 1..(MaxOrders + 1)
PathRequests == 1..(MaxRequests + 1)

\* Bodies that name another identifier than the path: an orderId other
\* than o, a requestId other than r, the latter with a requestStatus or
\* without.
OtherOrder(o) == {Field("orderId", b) : b \in PathOrders \ {o}}
OtherRequest(r) == {Field("requestId", b) : b \in PathRequests \ {r}}
OtherRequestMatched(r) ==
    {ObjectAssign(Field("requestStatus", "MATCHED"), b) : b \in OtherRequest(r)}

\* The handlers that take an identifier from the path, called with a body
\* that names another one, on stores of up to MaxRequests + 1 requests.
PathNext ==
    \/ CreateOrder
    \/ CreateOrderRequestWith(MaxRequests + 1, PathOrders,
                              [o \in PathOrders |-> OtherOrder(o)])
    \/ UpdateOrderRequestWith(PathRequests,
                              [r \in PathRequests |-> OtherRequestMatched(r)])
    \/ DeleteOrderRequestWith(PathRequests,
                              [r \in PathRequests |-> OtherRequest(r)])

\* No request is in flight.
Quiet == \A q \in Procs : pc[q] = "idle"

ChatNext ==
    \/ \E p \in Procs : JoinRoomStart(p)
    \/ \E p \in Procs : JoinRoomLookup(p)
    \/ \E p \in Procs : JoinRoomCount(p)
    \/ \E p \in Procs : JoinRoomCreate(p)
    \/ \E p \in Procs : JoinRoomRespond(p)
    \/ \E p \in Procs : RequestEnd(p)
    \/ \E u \in UserIds : DeleteUser(u)

Init == ChatInit /\ OrderInit /\ MsgInit /\ UserInit

\* The order handlers; each makes one service call.
OrderSpec == Init /\ [][OrderNext]_vars

OrderLifeSpec == Init /\ [][OrderLifeNext]_vars

\* The user handlers, one call at a time.
UserNext ==
    \/ UpdateUser
    \/ UpdateUserPassword
    \/ DeleteUserCall

\* Every user has a row; no call has been made.
UserStart == Init /\ workflow = "shopper"

UserSpec == UserStart /\ [][UserNext]_vars

\* The handlers that take an identifier from the path.
PathSpec == Init /\ [][PathNext]_vars

\* The chat handlers leave the order stores alone, whichever order
\* controller is in use.
ChatStart == Init /\ workflow = "shopper"

\* Requests are served concurrently: their await points interleave.
ChatSpec == ChatStart /\ [][ChatNext]_vars

\* Requests are served one after the other.
ChatSeqNext ==
    \/ \E p \in Procs : Quiet /\ JoinRoomStart(p)
    \/ \E p \in Procs : JoinRoomLookup(p)
    \/ \E p \in Procs : JoinRoomCount(p)
    \/ \E p \in Procs : JoinRoomCreate(p)
    \/ \E p \in Procs : JoinRoomRespond(p)
    \/ \E p \in Procs : RequestEnd(p)
    \/ \E u \in UserIds : Quiet /\ DeleteUser(u)
ChatSeqSpec == ChatStart /\ [][ChatSeqNext]_vars

\* The two rooms exist; the socket server is attached to the requests or
\* it is not.
SendStart ==
    /\ users = MsgUsers
    /\ rooms = MsgRooms
    /\ pc = [p \in Procs |-> "idle"]
    /\ req = [p \in Procs |-> NoReq]
    /\ loc = [p \in Procs |-> NoLoc]
    /\ res = [p \in Procs |-> NoRes]
    /\ OrderInit /\ workflow = "shopper"
    /\ messages = <<>>
    /\ clock = 0
    /\ io \in {"attached", "missing"}
    /\ emitted = <<>>
    /\ page = NoPage
    /\ view = NoView
    /\ UserInit

SendNext ==
    \/ \E p \in Procs : SendMessageStart(p)
    \/ \E p \in Procs : SendMessageLookup(p)
    \/ \E p \in Procs : SendMessageCreate(p)
    \/ \E p \in Procs : SendMessageEmit(p)
    \/ \E p \in Procs : RequestEnd(p)
    \/ Tick

\* sendMessage requests served concurrently.
SendSpec == SendStart /\ [][SendNext]_vars

\* The stores a listing may meet: up to MaxListed orders of any owners, as
\* createOrder leaves them, and at most one request on one of them.
ListedOrders == UNION {[1..n -> [owner : UserIds]] : n \in 0..MaxListed}
ListedRequests(os) ==
    {<<>>} \cup {1 :> [orderId |-> o, counterpart |-> u,
                       requestStatus |-> "REQUESTING"] :
                    o \in DOMAIN os, u \in UserIds}

ListStart ==
    /\ ChatInit /\ MsgInit /\ UserInit
    /\ workflow \in Workflows
    /\ orders \in ListedOrders
    /\ orderSeq = Len(orders)
    /\ requests \in ListedRequests(orders)
    /\ requestSeq = Cardinality(DOMAIN requests)
    /\ companions = IF workflow = "runner" THEN requestSeq ELSE 0
    /\ last = NoCall
    /\ listing = NoListing

ListNext ==
    \/ GetOrders
    \/ GetRequests

\* getOrders and getRequests on a store.
ListSpec == ListStart /\ [][ListNext]_vars

\* The ledgers loadMessage may meet: up to MaxMessages messages of user 10,
\* who takes part in both rooms, with any createdAt up to the clock (a
\* request stamps createdAt when it calls createMessage; the rows of
\* requests in flight together are inserted in any order).
Ledgers ==
    UNION {[1..n -> [roomId : 1..Len(MsgRooms), userId : {10},
                     createdAt : 0..MaxClock]] : n \in 0..MaxMessages}

\* Every message of the ledger has been emitted and answered.
LedgerStart ==
    /\ users = MsgUsers
    /\ rooms = MsgRooms
    /\ pc = [p \in Procs |-> "idle"]
    /\ req = [p \in Procs |-> NoReq]
    /\ loc = [p \in Procs |-> NoLoc]
    /\ res = [p \in Procs |-> NoRes]
    /\ OrderInit /\ workflow = "shopper"
    /\ messages \in Ledgers
    /\ clock = MaxClock
    /\ io = "attached"
    /\ emitted = [i \in 1..Len(messages) |->
                     [channel |-> rooms[messages[i].roomId].roomKey,
                      event |-> "message", payload |-> ToJSON(i)]]
    /\ page = NoPage
    /\ view = NoView
    /\ UserInit

LedgerNext == LoadMessage

\* loadMessage requests on a ledger.
LedgerSpec == LedgerStart /\ [][LedgerNext]_vars

\* No room exists yet; the socket server is attached to the requests or it
\* is not.
RoomStart ==
    /\ ChatInit
    /\ OrderInit /\ workflow = "shopper"
    /\ messages = <<>>
    /\ clock = 0
    /\ io \in {"attached", "missing"}
    /\ emitted = <<>>
    /\ page = NoPage
    /\ view = NoView
    /\ UserInit

\* The chat handlers, one request at a time: joinRoom, sendMessage, room,
\* loadRoom and loadMessage.
RoomNext ==
    \/ \E p \in Procs : Quiet /\ JoinRoomStart(p)
    \/ \E p \in Procs : JoinRoomLookup(p)
    \/ \E p \in Procs : JoinRoomCount(p)
    \/ \E p \in Procs : JoinRoomCreate(p)
    \/ \E p \in Procs : JoinRoomRespond(p)
    \/ \E p \in Procs : Quiet /\ SendMessageStart(p)
    \/ \E p \in Procs : SendMessageLookup(p)
    \/ \E p \in Procs : SendMessageCreate(p)
    \/ \E p \in Procs : SendMessageEmit(p)
    \/ \E p \in Procs : RequestEnd(p)
    \/ Quiet /\ Room
    \/ Quiet /\ LoadRoomOn({EmptyObject})
    \/ Quiet /\ LoadMessageOn(RoomKeys, {EmptyObject})

RoomSpec == RoomStart /\ [][RoomNext]_vars

(* ------------------------- claims: room identity ----------------------- *)

\* A request that has derived its room key (line 122 was reached).
HasKey(p) == loc[p].roomKey # ""

\* The list holds no identifier twice.
Distinct(s) == Cardinality(Range(s)) = Len(s)

\* s sorted in numerically ascending order.
RECURSIVE NumericInsert(_, _)
NumericInsert(x, s) ==
    IF s = <<>> THEN <<x>>
    ELSE IF x < Head(s) THEN <<x>> \o s
    ELSE <<Head(s)>> \o NumericInsert(x, Tail(s))

RECURSIVE NumericSort(_)
NumericSort(s) ==
    IF s = <<>> THEN <<>>
    ELSE NumericInsert(s[Len(s)], NumericSort(SubSeq(s, 1, Len(s) - 1)))

\* C1. Room key canonicality: a joinRoom request whose participants are
\* those of an existing room derives that room's key, whatever the order of
\* the body, whoever of the set asks and whether or not the body lists the
\* requester.
C1_RoomKeyCanonical ==
    \A p \in Procs : \A i \in 1..Len(rooms) :
        (/\ HasKey(p)
         /\ Distinct(loc[p].userIds)
         /\ Range(loc[p].userIds) = Range(rooms[i].userIds))
        => loc[p].roomKey = rooms[i].roomKey

\* C2. The room key is the participant identifiers in numerically ascending
\* order, joined with '-'.
C2_KeyIsNumericallySorted ==
    \A p \in Procs :
        HasKey(p) => loc[p].roomKey = JoinDash(NumericSort(loc[p].userIds))

\* C3. Idempotent room creation, requests served one after the other: the
\* store never holds two rooms for one participant set.
C3_OneRoomPerParticipantSet ==
    \A i, j \in 1..Len(rooms) :
        Range(rooms[i].userIds) = Range(rooms[j].userIds) => i = j

C5_MinimumMembership ==
    /\ \A p \in Procs :
          (pc[p] # "idle" /\ Cardinality(Range(loc[p].userIds)) < MinMembers)
          => /\ pc[p] \in {"lookup", "count", "done"}
             /\ loc[p].chattingRoom = 0
             /\ pc[p] = "done" => res[p] = ErrorRes("CHATTING.INVALID_MEMBER")
    /\ \A i \in 1..Len(rooms) :
          Cardinality(Range(rooms[i].userIds)) >= MinMembers

\* Both cases were refused: the requester alone, and a body that repeats the
\* requester's identifier.
C5_Witness ==
    \E p, q \in Procs :
        /\ pc[p] = "done" /\ loc[p].userIds = <<2>>
        /\ res[p] = ErrorRes("CHATTING.INVALID_MEMBER")
        /\ pc[q] = "done" /\ loc[q].userIds = <<2, 2>> /\ req[q].userId = 2
        /\ res[q] = ErrorRes("CHATTING.INVALID_MEMBER")

\* C6 as stated: every room consists only of users that exist when it is
\* created.
C6_MembersExistAtCreation ==
    [][\A i \in 1..Len(rooms') :
          i > Len(rooms) => Range(rooms'[i].userIds) \subseteq users]_vars

\* C6, amended. The user count check decides: when the matched count differs
\* from the list size the request ends with CHATTING.INVALID_MEMBER and the
\* rooms are unchanged; a room is created only by a request whose check
\* passed, and its members were all active users when that check ran.
C6_CreateOnlyAfterCountCheck ==
    [][/\ \A p \in Procs :
             (pc[p] = "count" /\ pc'[p] # "count")
             => IF IsSame(loc[p].userIds)
                THEN /\ pc'[p] = "create"
                     /\ Range(loc'[p].userIds) \subseteq loc'[p].activeAtCheck
                     /\ loc'[p].activeAtCheck = users
                ELSE /\ pc'[p] = "done"
                     /\ res'[p] = ErrorRes("CHATTING.INVALID_MEMBER")
                     /\ rooms' = rooms
       /\ rooms' # rooms
          => \E p \in Procs :
                /\ pc[p] = "create"
                /\ Range(loc[p].userIds) \subseteq loc[p].activeAtCheck
                /\ Distinct(loc[p].userIds)
                /\ rooms' = Append(rooms, NewRoom(loc[p].userIds))]_vars

\* One request created a room after its check passed, another was refused
\* by the check.
C6_Witness ==
    \E p, q \in Procs :
        /\ pc[p] = "users" /\ loc[p].activeAtCheck # {}
        /\ rooms # <<>>
        /\ pc[q] = "done" /\ ~TooFewMembers(loc[q].userIds)
        /\ res[q] = ErrorRes("CHATTING.INVALID_MEMBER")

(* ------------------------ claims: order requests ----------------------- *)

\* The transition table: the pairs (from, to) a request may move along.
TransitionTable ==
    {<<"REQUESTING", "MATCHED">>, <<"REQUESTING", "MATCH_FAIL">>,
     <<"MATCHED", "DELIVERED_REQUEST">>, <<"MATCHED", "MATCH_FAIL">>,
     <<"DELIVERED_REQUEST", "DELIVERED">>,
     <<"DELIVERED", "REVIEW_REQUEST">>,
     <<"REVIEW_REQUEST", "REVIEWED">>}

TerminalStatus == {"MATCH_FAIL", "REVIEWED"}

\* C7. Transition legality, in either controller: an updateOrderRequest
\* that asks an existing request to move along a pair of the table succeeds
\* and the request has the new status; for any other pair of statuses it is
\* answered InvalidTransition and the stored status is the one before the
\* call.
C7_TransitionLegality ==
    (/\ last.op = "updateOrderRequest"
     /\ last.from \in RequestStatus
     /\ last.to \in RequestStatus)
    => IF <<last.from, last.to>> \in TransitionTable
       THEN last.outcome = "ok" /\ StatusOf(last.id) = last.to
       ELSE last.outcome = "InvalidTransition" /\ StatusOf(last.id) = last.from

\* A request of the runner controller that was matched (a legal move) has
\* just been refused the move MATCHED -> DELIVERED.
C7_Witness ==
    /\ workflow = "runner"
    /\ last.op = "updateOrderRequest"
    /\ last.from = "MATCHED" /\ last.to = "DELIVERED"
    /\ last.outcome = "InvalidTransition"
    /\ StatusOf(last.id) = "MATCHED"

\* C8. Terminal immutability: from a state in which a request is MATCH_FAIL
\* or REVIEWED, no step gives it another status, and an updateOrderRequest
\* on it is answered with an error.
C8_TerminalImmutability ==
    [][\A r \in DOMAIN requests :
          requests[r].requestStatus \in TerminalStatus
          => /\ r \in DOMAIN requests'
                => requests'[r].requestStatus = requests[r].requestStatus
             /\ (last'.op = "updateOrderRequest" /\ last'.id = r)
                => last'.outcome = "InvalidTransition"]_vars

\* A request went all the way to REVIEWED and an update on it was refused.
C8_Witness ==
    /\ last.op = "updateOrderRequest"
    /\ last.from = "REVIEWED" /\ last.to = "REQUESTING"
    /\ last.outcome = "InvalidTransition"
    /\ StatusOf(last.id) = "REVIEWED"

\* C9. An update whose requestStatus is not one of the seven literals (or is
\* missing) is answered InvalidArgument without the service being called,
\* and the request is unchanged.
C9_UnknownStatusRejectedEarly ==
    (last.op = "updateOrderRequest" /\ last.to \notin RequestStatus)
    => /\ last.outcome = "InvalidArgument"
       /\ ~last.svc
       /\ StatusOf(last.id) = last.from

\* C10. The owner of the order a createOrder call stored is the
\* authenticated caller.
C10_OwnerIsCaller ==
    (last.op = "createOrder" /\ last.outcome = "ok" /\ last.id \in DOMAIN orders)
    => orders[last.id].owner = last.caller

(* ----------------------- claims: order lifecycle ----------------------- *)

\* C11. Only the owner may delete an order: a deleteOrder call by a user
\* who does not own the order (or for an order that does not exist) leaves
\* the orders as they are and is answered isDeleted false or an error; an
\* order leaves the store only in a deleteOrder call made by its owner.
C11_OnlyOwnerDeletes ==
    [][/\ \A o \in DOMAIN orders :
             o \notin DOMAIN orders'
             => /\ last'.op = "deleteOrder" /\ last'.id = o
                /\ last'.caller = orders[o].owner
                /\ last'.outcome = "ok" /\ last'.data = "isDeleted: true"
       /\ (/\ last'.op = "deleteOrder"
           /\ \/ last'.id \notin DOMAIN orders
              \/ orders[last'.id].owner # last'.caller)
          => /\ orders' = orders
             /\ last'.outcome # "ok" \/ last'.data = "isDeleted: false"]_vars

\* The order of user 2 is still stored after user 10 asked to delete it.
C11_Witness ==
    /\ last.op = "deleteOrder" /\ last.caller = 10
    /\ last.id \in DOMAIN orders /\ orders[last.id].owner = 2
    /\ last.data = "isDeleted: false"

\* C12. Duplicate request prevention: a createOrderRequest for an (order,
\* counterpart) pair that already has an active request is answered
\* Conflict, so no order holds two active requests from one counterpart.
C12_NoDuplicateRequest ==
    /\ \A r, s \in DOMAIN requests :
          (/\ requests[r].orderId = requests[s].orderId
           /\ requests[r].counterpart = requests[s].counterpart
           /\ requests[r].requestStatus \notin TerminalStatus
           /\ requests[s].requestStatus \notin TerminalStatus)
          => r = s
    /\ (/\ last.op = "createOrderRequest" /\ last.outcome = "ok"
        /\ last.id \in DOMAIN requests)
       => \A s \in DOMAIN requests \ {last.id} :
             \/ requests[s].orderId # requests[last.id].orderId
             \/ requests[s].counterpart # requests[last.id].counterpart
             \/ requests[s].requestStatus \in TerminalStatus

\* C13. A createOrderRequest for an orderId that is not stored is answered
\* NotFound; it creates no request and, in the runner workflow, no
\* accompanying shopper order.
C13_RequestNeedsOrder ==
    [][(last'.op = "createOrderRequest" /\ last'.from = "none")
       => /\ last'.outcome = "NotFound"
          /\ requests' = requests /\ requestSeq' = requestSeq
          /\ companions' = companions
          /\ orders' = orders]_vars

\* Runner workflow: the order was deleted, and a request for it was refused.
C13_Witness ==
    /\ workflow = "runner"
    /\ orderSeq = 1 /\ DOMAIN orders = {}
    /\ last.op = "createOrderRequest" /\ last.from = "none"
    /\ last.outcome = "NotFound"
    /\ companions = 0 /\ DOMAIN requests = {}

\* C14. deleteOrderRequest answers isDeleted true exactly when the call
\* removed the request row, whatever the status of the request; afterwards
\* the request is not stored, so a second call for the same requestId, like
\* a call for an unknown requestId, answers false and leaves every request
\* as it is.
C14_DeleteRequestOnce ==
    [][last'.op = "deleteOrderRequest"
       => /\ last'.outcome = "ok"
          /\ last'.data = IF last'.id \in DOMAIN requests
                          THEN "isDeleted: true" ELSE "isDeleted: false"
          /\ last'.from = StatusOf(last'.id)
          /\ last'.id \notin DOMAIN requests'
          /\ \A r \in DOMAIN requests \ {last'.id} :
                r \in DOMAIN requests' /\ requests'[r] = requests[r]
          /\ last'.id \notin DOMAIN requests => requests' = requests]_vars

\* The only request ever created has been deleted, and a further
\* deleteOrderRequest for its requestId was answered false.
C14_Witness ==
    /\ requestSeq = 1 /\ DOMAIN requests = {}
    /\ last.op = "deleteOrderRequest" /\ last.id = 1
    /\ last.from = "none" /\ last.data = "isDeleted: false"

(* --------------------------- claims: messages -------------------------- *)

\* userId takes part in the room with key roomKey.
IsParticipant(userId, roomKey) ==
    \E i \in 1..Len(rooms) :
        rooms[i].roomKey = roomKey /\ userId \in Range(rooms[i].userIds)

\* C15. sendMessage stores a message only when the room named by roomKey
\* exists and the caller takes part in it; any other call ends with
\* CHATTING.INVALID_ROOMKEY, stores no message and emits nothing. Hence the
\* author of every stored message takes part in the room of the message.
C15_AuthorIsParticipant ==
    /\ \A i \in 1..Len(messages) :
          messages[i].userId \in Range(rooms[messages[i].roomId].userIds)
    /\ \A p \in Procs :
          (pc[p] \in {"msgCreate", "msgEmit", "done"}
           /\ ~IsParticipant(req[p].userId, loc[p].roomKey))
          => /\ pc[p] = "done"
             /\ res[p] = ErrorRes("CHATTING.INVALID_ROOMKEY")
             /\ loc[p].chattingMessage = 0

\* The events that carry message id.
EventsOf(id) == {k \in 1..Len(emitted) : emitted[k].payload.id = id}

\* C16. Every sendMessage that is answered with success has emitted exactly
\* one 'message' event, carrying the stored message, to the channel named
\* by the roomKey of the message's room; an event is emitted only for a
\* message that is in the ledger, and never twice for one message.
C16_OneBroadcastAfterPersist ==
    /\ \A k \in 1..Len(emitted) :
          /\ emitted[k].event = "message"
          /\ emitted[k].payload.id \in 1..Len(messages)
          /\ emitted[k].payload = ToJSON(emitted[k].payload.id)
          /\ emitted[k].channel =
                rooms[messages[emitted[k].payload.id].roomId].roomKey
          /\ Cardinality(EventsOf(emitted[k].payload.id)) = 1
    /\ \A p \in Procs :
          (pc[p] = "done" /\ res[p].kind = "json" /\ loc[p].chattingMessage # 0)
          => /\ res[p].chattingMessage = loc[p].chattingMessage
             /\ Cardinality(EventsOf(loc[p].chattingMessage)) = 1

\* Two sendMessage calls were answered with success, each after its event.
C16_Witness ==
    /\ Len(emitted) = 2 /\ emitted[1].payload.id # emitted[2].payload.id
    /\ \A p \in Procs : pc[p] = "done" /\ res[p].kind = "json"

\* C17. Message durability does not depend on the broadcast: the message a
\* sendMessage call created is in the ledger and in the first page of its
\* room whether the emit went through or threw, and no step removes or
\* changes a stored message.
C17_DurableWithoutBroadcast ==
    [][/\ \A i \in 1..Len(messages) :
             i <= Len(messages') /\ messages'[i] = messages[i]
       /\ \A p \in Procs :
             loc[p].chattingMessage # 0
             => LET id == loc[p].chattingMessage
                IN  /\ id \in 1..Len(messages)
                    /\ messages[id] = NewMessage(req[p].userId,
                                                 loc[p].chattingRoom,
                                                 loc[p].createdAt)
                    /\ id \in Range(LoadMessageRows(loc[p].chattingRoom,
                                                    DefaultLimit, DefaultOffset))
                    /\ (pc[p] = "done" /\ res[p].kind = "error")
                       => EventsOf(id) = {}]_vars

\* The emit of a call threw; its message is stored.
C17_Witness ==
    \E p \in Procs :
        /\ pc[p] = "done" /\ res[p] = ErrorRes("TypeError")
        /\ loc[p].chattingMessage \in 1..Len(messages)
        /\ emitted = <<>>

\* C18. No operation partially applies: a call that ended by forwarding an
\* error to the caller has stored nothing.
C18_ErrorStoresNothing ==
    \A p \in Procs :
        (pc[p] = "done" /\ res[p].kind = "error")
        => loc[p].chattingMessage \notin 1..Len(messages)

\* Message a is more recent than message b: created later, or created at
\* the same time and inserted later.
MoreRecent(a, b) ==
    \/ messages[a].createdAt > messages[b].createdAt
    \/ messages[a].createdAt = messages[b].createdAt /\ a > b

\* The messages of a room.
MessagesOf(roomId) == {i \in 1..Len(messages) : messages[i].roomId = roomId}

\* Every message of rows is more recent than the ones after it.
Descending(rows) ==
    \A k, l \in 1..Len(rows) : k < l => MoreRecent(rows[k], rows[l])

\* C19. loadMessage answers messages of the room of the query, most recent
\* first, messages of one createdAt in the order of their insertion
\* identifiers; a query without offset answers the most recent messages of
\* the room, all of them when the limit allows.
C19_MostRecentFirst ==
    page.outcome = "ok"
    => /\ Range(page.rows) \subseteq MessagesOf(page.chattingRoom)
       /\ Descending(page.rows)
       /\ page.offset = 0
          => /\ \A a \in Range(page.rows) :
                   \A b \in MessagesOf(page.chattingRoom) \ Range(page.rows) :
                       MoreRecent(a, b)
             /\ Len(page.rows) < page.limit
                => Range(page.rows) = MessagesOf(page.chattingRoom)

\* Three messages of one room, the second stamped before the first: the
\* page starts with the last one inserted and ends with the second.
C19_Witness ==
    /\ page.outcome = "ok" /\ page.rows = <<3, 1, 2>>
    /\ messages[1].createdAt = messages[3].createdAt

Smaller(a, b) == IF a < b THEN a ELSE b

\* C20. Pagination stability: a loadMessage with limit n and no offset,
\* followed with no append in between by one with limit n and offset n for
\* the same room, answers two slices that follow one another in one
\* descending sequence: no message is in both, and no message of the room
\* that is more recent than an answered one is left out.
C20_PaginationStable ==
    [][(/\ page.outcome = "ok" /\ page'.outcome = "ok"
        /\ page'.roomKey = page.roomKey
        /\ page.offset = 0
        /\ page'.limit = page.limit /\ page'.offset = page.limit
        /\ messages' = messages)
       => LET all == MessagesOf(page.chattingRoom)
              both == page.rows \o page'.rows
          IN  /\ Len(page.rows) = Smaller(page.limit, Cardinality(all))
              /\ Len(page'.rows) =
                    Smaller(page.limit, Cardinality(all) - Len(page.rows))
              /\ Range(page.rows) \cap Range(page'.rows) = {}
              /\ Range(both) \subseteq all
              /\ Descending(both)
              /\ \A a \in Range(both) : \A b \in all \ Range(both) :
                    MoreRecent(a, b)]_vars

\* Three messages m1, m2, m3 sent in this order to one room: after the
\* page [m3, m2] the query with limit 2 and offset 2 answered [m1].
C20_Witness ==
    /\ Len(messages) = 3
    /\ \A i \in 1..3 : messages[i].roomId = 1
    /\ messages[1].createdAt <= messages[2].createdAt
    /\ messages[2].createdAt <= messages[3].createdAt
    /\ page.outcome = "ok" /\ page.chattingRoom = 1
    /\ page.limit = 2 /\ page.offset = 2
    /\ page.rows = <<1>>

(* --------------------------- claims: listings -------------------------- *)

\* The rows the service of a listing finds for a query.
RowsFor(op, query) ==
    IF op = "getOrders" THEN GetOrdersRows(query, workflow)
    ELSE GetRequestsRows(query, workflow)

\* The query with the owner filter written as the decimal form of userId.
Explicit(query, userId) ==
    ObjectAssign(query, Field(OwnerField(workflow), Str(ToString(userId))))

\* The owner a row of a listing belongs to.
OwnerOfRow(op, row) ==
    IF op = "getOrders" THEN orders[row].owner
    ELSE orders[requests[row].orderId].owner

\* C21. Ownership filter resolution: a getOrders or getRequests call whose
\* owner filter is 'me' calls the service with the caller's userId in its
\* place, no answered call has passed the literal 'me' to the service, and
\* the answer is the one of the same call with the caller's identifier
\* written out: rows of the caller only.
C21_MeIsTheCaller ==
    listing.outcome = "json"
    => /\ ~AsksForMe(listing.passed, workflow)
       /\ AsksForMe(listing.asked, workflow)
          => LET explicit == Explicit(listing.asked, listing.caller)
             IN  /\ listing.passed[OwnerField(workflow)] = Num(listing.caller)
                 /\ listing.data =
                       Listed(listing.op, listing.caller, explicit,
                              RowsFor(listing.op, explicit)).data
                 /\ \A k \in 1..Len(listing.data.items) :
                       OwnerOfRow(listing.op, listing.data.items[k]) = listing.caller

\* Orders of users 10 and 2 are stored; user 2 asked for 'me' and was
\* answered the second order alone.
C21_Witness ==
    /\ Len(orders) = 2 /\ orders[1].owner = 10 /\ orders[2].owner = 2
    /\ listing.op = "getOrders" /\ listing.caller = 2
    /\ AsksForMe(listing.asked, workflow)
    /\ listing.data.items = <<2>> /\ listing.data.totalCount = 1

\* The orders an owner filter selects: all of them when the query has none.
Matching(query) ==
    {o \in DOMAIN orders :
        OwnerField(workflow) \in DOMAIN query
        => MatchesId(query[OwnerField(workflow)], orders[o].owner)}

\* The queries with the owner filter of query.
SameFilter(query) ==
    {q \in ListQueries(workflow) :
        /\ (OwnerField(workflow) \in DOMAIN q)
              = (OwnerField(workflow) \in DOMAIN query)
        /\ OwnerField(workflow) \in DOMAIN q
           => q[OwnerField(workflow)] = query[OwnerField(workflow)]}

C23_ExactlyOneOutcome ==
    /\ listing.op # "none" => listing.outcome \in {"json", "error"}
    /\ \A p \in Procs : pc[p] = "done" => res[p].kind \in {"json", "error"}
    /\ last.op # "none" => last.outcome # ""

(* ----------------------- claims: order requests, 2 -------------------- *)

\* The status a request is in right before it takes status s.
ProposalOf(s) ==
    CASE s = "DELIVERED_REQUEST" -> {"MATCHED"}
      [] s = "DELIVERED"         -> {"DELIVERED_REQUEST"}
      [] s = "REVIEW_REQUEST"    -> {"DELIVERED"}
      [] s = "REVIEWED"          -> {"REVIEW_REQUEST"}
      [] s = "MATCHED"           -> {"REQUESTING"}
      [] s = "MATCH_FAIL"        -> {"REQUESTING", "MATCHED"}
      [] OTHER                   -> {}

\* C24. Two-phase handshake ordering: a request is created REQUESTING, and
\* every step that gives a request a new status takes it there from the
\* status right before it: DELIVERED from DELIVERED_REQUEST, REVIEWED from
\* REVIEW_REQUEST, DELIVERED_REQUEST from MATCHED. So a request in a
\* confirmed status was in its proposal status earlier, and one at or
\* beyond DELIVERED_REQUEST was MATCHED earlier.
C24_HandshakeOrder ==
    [][\A r \in DOMAIN requests' :
          IF r \in DOMAIN requests
          THEN requests'[r].requestStatus # requests[r].requestStatus
               => /\ requests[r].requestStatus
                        \in ProposalOf(requests'[r].requestStatus)
                  /\ last'.op = "updateOrderRequest" /\ last'.id = r
          ELSE /\ requests'[r].requestStatus = "REQUESTING"
               /\ r > requestSeq]_vars

\* A request has just been confirmed DELIVERED, from DELIVERED_REQUEST.
C24_Witness ==
    /\ last.op = "updateOrderRequest" /\ last.outcome = "ok"
    /\ last.from = "DELIVERED_REQUEST"
    /\ StatusOf(last.id) = "DELIVERED"

\* C25. The counterpart recorded on a newly created request is the
\* authenticated caller, whatever the body of the call holds.
C25_CounterpartIsCaller ==
    (/\ last.op = "createOrderRequest" /\ last.outcome = "ok"
     /\ last.id \in DOMAIN requests)
    => requests[last.id].counterpart = last.caller

(* --------------------- claims: rooms and their ledger ------------------ *)

\* A joinRoom request whose lookup found the room (the user count check of
\* line 127 was never made for it).
FoundRoom(p) ==
    /\ loc[p].userIds # <<>>
    /\ loc[p].chattingRoom # 0
    /\ loc[p].activeAtCheck = {}

\* C26. Room membership is immutable: no step of joinRoom, room, loadRoom,
\* loadMessage or sendMessage changes the participants or the key of a room
\* that exists, and a joinRoom that found the room never goes on to the
\* createRoom branch and leaves the room store as it is.
C26_RoomsImmutable ==
    [][/\ Len(rooms') >= Len(rooms)
       /\ \A i \in 1..Len(rooms) : rooms'[i] = rooms[i]
       /\ \A p \in Procs :
             (loc'[p].userIds # <<>> /\ loc'[p].chattingRoom # 0
              /\ loc[p].chattingRoom = 0 /\ rooms' = rooms)
             => pc'[p] \notin {"count", "create"}
       /\ \A p \in Procs :
             (FoundRoom(p) /\ pc[p] # "idle")
             => rooms' = rooms /\ pc'[p] \notin {"count", "create"}]_vars

\* A joinRoom has found the existing room and answered it, after a message
\* was sent and the read handlers were called.
C26_Witness ==
    /\ \E p \in Procs :
          FoundRoom(p) /\ pc[p] = "done" /\ res[p].kind = "json"
    /\ Len(rooms) = 1
    /\ Len(messages) > 0
    /\ page.outcome # "none"
    /\ view.op # "none"

\* The stored messages of room roomId.
Ledger(ms, roomId) == {i \in 1..Len(ms) : ms[i].roomId = roomId}

\* Request p is a sendMessage whose createMessage call is resolving.
Inserting(p) == pc[p] = "msgCreate" /\ pc'[p] = "msgEmit"

\* C27. The message ledger is append-only: no step changes or removes a
\* stored message; the only step that adds one is the createMessage of a
\* sendMessage request, which adds exactly one message, to the room the
\* request resolved, and every request makes that step at most once, before
\* it is answered; loadMessage, loadRoom, room and joinRoom steps leave the
\* ledger as it is.
C27_LedgerAppendOnly ==
    [][/\ Len(messages') >= Len(messages)
       /\ \A i \in 1..Len(messages) : messages'[i] = messages[i]
       /\ \A r \in 1..Len(rooms) : Ledger(messages, r) \subseteq Ledger(messages', r)
       /\ \A p \in Procs :
             Inserting(p)
             => /\ Len(messages') = Len(messages) + 1
                /\ loc[p].chattingMessage = 0
                /\ loc'[p].chattingMessage = Len(messages')
                /\ Ledger(messages', loc[p].chattingRoom)
                     = Ledger(messages, loc[p].chattingRoom) \cup {Len(messages')}
       /\ (\A p \in Procs : ~Inserting(p)) => messages' = messages
       /\ \A p \in Procs :
             (res'[p].kind = "json" /\ res'[p].chattingMessage # 0)
             => /\ res'[p].chattingMessage \in DOMAIN messages'
                /\ res'[p].chattingMessage = loc'[p].chattingMessage
       /\ (page' # page \/ view' # view \/ rooms' # rooms) => messages' = messages
      ]_vars

\* A second message has been sent and answered in a room that joinRoom
\* created, after the read handlers were called on a ledger of one message.
C27_Witness ==
    /\ \E p \in Procs :
          /\ pc[p] = "done" /\ res[p].kind = "json"
          /\ res[p].chattingMessage = 2
    /\ Len(messages) = 2
    /\ page.outcome = "ok" /\ Len(page.rows) = 1
    /\ view.op # "none"

\* C28. A room call whose roomKey resolves to no room is answered with
\* CHATTING.INVALID_ROOMKEY, as loadMessage and sendMessage answer it; it is
\* never answered with success, an empty room and the users named in the
\* key.
C28_MissingRoomNotFound ==
    (view.op = "room" /\ view.chattingRoom = 0)
    => /\ view.outcome = "CHATTING.INVALID_ROOMKEY"
       /\ view.users = {}

(* ------------------ claims: path and caller identity ------------------- *)

\* Every request but id is stored as it was.
OthersKept(id) ==
    \A r \in DOMAIN requests \ {id} :
        r \in DOMAIN requests' /\ requests'[r] = requests[r]

\* C29. updateOrderRequest and deleteOrderRequest act on the request of the
\* path and on no other, and createOrderRequest creates a request exactly
\* when the order of the path exists, whatever requestId or orderId the
\* body names: an update of a REQUESTING request of the path to MATCHED
\* succeeds and changes that request, an update or delete of a path that
\* names no request changes nothing, and every other request is left as it
\* was.
C29_PathIdWins ==
    [][/\ last'.op = "updateOrderRequest"
          => /\ OthersKept(last'.id)
             /\ DOMAIN requests' = DOMAIN requests
             /\ last'.from = "REQUESTING"
                  => /\ last'.outcome = "ok"
                     /\ requests'[last'.id].requestStatus = "MATCHED"
             /\ last'.from = "none" => last'.outcome # "ok"
       /\ last'.op = "deleteOrderRequest"
          => /\ OthersKept(last'.id)
             /\ DOMAIN requests' = DOMAIN requests \ {last'.id}
       /\ last'.op = "createOrderRequest"
          => /\ OthersKept(0)
             /\ IF last'.from = "stored"
                THEN /\ last'.outcome = "ok"
                     /\ DOMAIN requests' = DOMAIN requests \cup {last'.id}
                     /\ last'.id \notin DOMAIN requests
                     /\ requests'[last'.id].orderId \in DOMAIN orders
                ELSE /\ last'.outcome # "ok"
                     /\ requests' = requests]_vars

\* Request 1 of the path has been moved to MATCHED by a call whose body
\* named request 2, which is stored and still REQUESTING.
C29_Witness ==
    /\ last.op = "updateOrderRequest" /\ last.outcome = "ok"
    /\ last.id = 1
    /\ StatusOf(1) = "MATCHED"
    /\ StatusOf(2) = "REQUESTING"

\* Every row but that of userId is stored as it was, and no other user
\* has been deactivated.
OtherUsersKept(userId) ==
    /\ \A u \in UserIds \ {userId} :
          profiles'[u] = profiles[u] /\ (u \in users <=> u \in users')
    /\ users' \subseteq users

\* C30. updateUser, updateUserPassword and deleteUser act on the row of the
\* authenticated caller only, whatever userId the body names: updateUser
\* writes the name to the caller's row; updateUserPassword with a password
\* that does not match the stored one is answered AUTH.PASSWORD_INCORRECT
\* and leaves every password as it was, and with one that matches it stores
\* the hash of the new password; deleteUser of a caller without a row is
\* answered USER.USER_NOT_FOUND and deactivates nobody.
C30_OwnRecordOnly ==
    [][/\ OtherUsersKept(reply'.caller)
       /\ reply'.op = "updateUser"
          => /\ users' = users
             /\ profiles'[reply'.caller].password = profiles[reply'.caller].password
             /\ reply'.caller \in users
                  => profiles'[reply'.caller].name = reply'.name
       /\ reply'.op = "updateUserPassword"
          => /\ users' = users
             /\ profiles'[reply'.caller].name = profiles[reply'.caller].name
             /\ (reply'.caller \in users
                  /\ ~Compare(reply'.password, profiles[reply'.caller].password))
                  => /\ reply'.outcome = "AUTH.PASSWORD_INCORRECT"
                     /\ profiles' = profiles
             /\ reply'.outcome = "ok"
                  <=> (reply'.caller \in users
                       /\ Compare(reply'.password, profiles[reply'.caller].password))
             /\ reply'.outcome # "ok" => profiles' = profiles
       /\ reply'.op = "deleteUser"
          => /\ profiles' = profiles
             /\ IF reply'.caller \in users
                THEN reply'.outcome = "ok" /\ users' = users \ {reply'.caller}
                ELSE reply'.outcome = "USER.USER_NOT_FOUND" /\ users' = users
      ]_vars

\* User 2 has changed its password to "new" and its name to "bob", user 10
\* has been deleted, and a call of user 2 with the old password has just
\* been refused.
C30_Witness ==
    /\ reply.op = "updateUserPassword" /\ reply.caller = 2
    /\ reply.outcome = "AUTH.PASSWORD_INCORRECT" /\ reply.password = "old"
    /\ profiles[2] = [name |-> "bob", password |-> Hash("new")]
    /\ profiles[10] = [name |-> "ann", password |-> Hash("old")]
    /\ users = {2}

====
